---------------------------- MODULE Spec2Model ----------------------------
(***************************************************************************)
(* formatMessage (src/formatMessage.js): a string is threaded through ten  *)
(* regex rewrite passes.  A string is a sequence of one-character strings; *)
(* every pass is an operator that scans the buffer the way                 *)
(* String.prototype.replace with a /g regex does (leftmost match first,    *)
(* greedy and lazy quantifiers in backtracking order, the scan resuming    *)
(* after each match), and one action of the state machine.                 *)
(***************************************************************************)
EXTENDS Integers, Sequences, FiniteSets

VARIABLES message, formattedMsg, result, pc, ran, prev, shape

vars == <<message, formattedMsg, result, pc, ran, prev, shape>>

(***************************************************************************)
(* Characters and the literals of the replacement strings.                 *)
(***************************************************************************)
NL == "\n"
\* the backquote character (the lexer admits none inside a string literal)
BT == "BACKQUOTE"
Whitespace == {" ", NL}
Digits == {"0", "1", "2", "3", "4", "5", "6", "7", "8", "9"}
SepChars == {"-", ":", "|"}
BulletChars == {"-", "*"}

TableOpen ==
    <<"<", "t", "a", "b", "l", "e", " ", "c", "l", "a", "s", "s", "=", "\"", "t", "a", "b", "l", "e", " ", "t", "a", "b", "l", "e", "-", "b", "o", "r", "d", "e", "r", "e", "d", " ", "t", "a", "b", "l", "e", "-", "d", "a", "r", "k", " ", "t", "a", "b", "l", "e", "-", "s", "m", "\"", ">", "<", "t", "h", "e", "a", "d", ">">>
TheadClose ==
    <<"<", "/", "t", "h", "e", "a", "d", ">", "<", "t", "b", "o", "d", "y", ">">>
TableClose ==
    <<"<", "/", "t", "b", "o", "d", "y", ">", "<", "/", "t", "a", "b", "l", "e", ">">>
TrOpen == <<"<", "t", "r", ">">>
TrClose == <<"<", "/", "t", "r", ">">>
ThOpen == <<"<", "t", "h", ">">>
ThClose == <<"<", "/", "t", "h", ">">>
TdOpen == <<"<", "t", "d", ">">>
TdClose == <<"<", "/", "t", "d", ">">>
PreOpen == <<"<", "p", "r", "e", ">", "<", "c", "o", "d", "e", ">">>
PreClose == <<"<", "/", "c", "o", "d", "e", ">", "<", "/", "p", "r", "e", ">">>
CodeOpen == <<"<", "c", "o", "d", "e", ">">>
CodeClose == <<"<", "/", "c", "o", "d", "e", ">">>
StrongOpen == <<"<", "s", "t", "r", "o", "n", "g", ">">>
StrongClose == <<"<", "/", "s", "t", "r", "o", "n", "g", ">">>
EmOpen == <<"<", "e", "m", ">">>
EmClose == <<"<", "/", "e", "m", ">">>
UlOpen == <<"<", "u", "l", ">">>
UlClose == <<"<", "/", "u", "l", ">">>
OlOpen == <<"<", "o", "l", ">">>
OlClose == <<"<", "/", "o", "l", ">">>
LiOpen == <<"<", "l", "i", ">">>
LiClose == <<"<", "/", "l", "i", ">">>
ParaBreak == <<"<", "/", "p", ">", "<", "p", ">">>
Br == <<"<", "b", "r", ">">>
POpen == <<"<", "p", ">">>
PClose == <<"<", "/", "p", ">">>

(***************************************************************************)
(* String helpers.  Positions are 1-based; an "end" is the position after  *)
(* the last character matched; 0 stands for "no match".                    *)
(***************************************************************************)
Max(S) == CHOOSE x \in S : \A y \in S : y <= x
Min(S) == CHOOSE x \in S : \A y \in S : x <= y

\* the leftmost / the rightmost of a set of candidate positions, or 0 for "no match"
First(S) == IF S = {} THEN 0 ELSE Min(S)
Last(S) == IF S = {} THEN 0 ELSE Max(S)

\* s.substring(i-1, j-1): the characters at positions i .. j-1
Sub(s, i, j) == SubSeq(s, i, j - 1)

\* the string from position i on
From(s, i) == SubSeq(s, i, Len(s))

\* does the literal lit occur in s at position i
At(s, i, lit) ==
    /\ i >= 1
    /\ i + Len(lit) - 1 <= Len(s)
    /\ \A k \in 1..Len(lit) : s[i + k - 1] = lit[k]

\* the position of the first "\n" at or after i, or Len(s)+1: where [^\n]* and .* stop
LineEnd(s, i) == Min({k \in i..Len(s) : s[k] = NL} \cup {Len(s) + 1})

\* the first position at or after i that holds no whitespace: where a greedy \s* stops
WsEnd(s, i) == Min({k \in i..Len(s) : s[k] \notin Whitespace} \cup {Len(s) + 1})

\* ^ under the m flag: the start of the input or the position after a "\n"
LineStart(s, i) == i = 1 \/ (i >= 2 /\ i - 1 <= Len(s) /\ s[i - 1] = NL)

\* String.prototype.trim
Trim(s) ==
    LET keep == {k \in 1..Len(s) : s[k] \notin Whitespace}
    IN IF keep = {} THEN <<>> ELSE SubSeq(s, Min(keep), Max(keep))

\* String.prototype.split('\n')
RECURSIVE SplitNL(_)
SplitNL(s) ==
    LET e == LineEnd(s, 1)
    IN IF e > Len(s) THEN <<s>>
       ELSE <<Sub(s, 1, e)>> \o SplitNL(From(s, e + 1))

(***************************************************************************)
(* Pass 1, tables (lines 12-52).                                           *)
(***************************************************************************)
\* tableRegex:  /(\|[^\n]+\|\s*\n\|[-:|]+\|[^\n]+\|\s*(?:\n\|[^\n]+\|\s*)*)/g
\* one iteration of (?:\n\|[^\n]+\|\s*) tried at e: its end, or 0
TableRowEnd(s, e) ==
    IF ~(e + 1 <= Len(s) /\ s[e] = NL /\ s[e + 1] = "|") THEN 0
    ELSE LET closes == {r \in (e + 3)..(LineEnd(s, e + 2) - 1) : s[r] = "|"}
         IN IF e + 2 > Len(s) \/ s[e + 2] = NL \/ closes = {} THEN 0
            ELSE WsEnd(s, Max(closes) + 1)

\* (?:\n\|[^\n]+\|\s*)* from e: greedy, nothing follows it in the regex
RECURSIVE TableRowsEnd(_, _)
TableRowsEnd(s, e) ==
    LET e2 == TableRowEnd(s, e)
    IN IF e2 = 0 THEN e ELSE TableRowsEnd(s, e2)

\* \|[-:|]+\|[^\n]+\|\s*(?:...)* tried at p (the separator row and what follows)
TableSepEnd(s, p) ==
    IF ~(p <= Len(s) /\ s[p] = "|") THEN 0
    ELSE LET \* [-:|]+ takes p+1..q and a "|" follows at q+1
             qs == {q \in (p + 1)..(Len(s) - 1) :
                      /\ \A k \in (p + 1)..q : s[k] \in SepChars
                      /\ s[q + 1] = "|"}
             \* [^\n]+ takes q+2..r-1 and a "|" follows at r
             Closes(q) == IF q + 2 > Len(s) \/ s[q + 2] = NL THEN {}
                          ELSE {r \in (q + 3)..(LineEnd(s, q + 2) - 1) : s[r] = "|"}
             good == {q \in qs : Closes(q) # {}}
         IN IF good = {} THEN 0
            ELSE TableRowsEnd(s, WsEnd(s, Max(Closes(Max(good))) + 1))

\* the whole regex tried at i: the end of the match, or 0
TableMatchEnd(s, i) ==
    IF ~(i <= Len(s) /\ s[i] = "|") THEN 0
    ELSE LET \* [^\n]+ takes i+1..a-1 and a "|" follows at a; \s* takes a+1..w-1 and
             \* a "\n" follows at w
             Rest(a) ==
                 LET ws == {w \in (a + 1)..(WsEnd(s, a + 1) - 1) : s[w] = NL}
                     ok == {w \in ws : TableSepEnd(s, w + 1) # 0}
                 IN IF ok = {} THEN 0 ELSE TableSepEnd(s, Max(ok) + 1)
             as == IF i + 1 > Len(s) \/ s[i + 1] = NL THEN {}
                   ELSE {a \in (i + 2)..(LineEnd(s, i + 1) - 1) : s[a] = "|"}
             good == {a \in as : Rest(a) # 0}
         IN IF good = {} THEN 0 ELSE Rest(Max(good))

\* line 15: table.split('\n').filter(row => row.trim().length > 0)
RECURSIVE NonBlankRows(_)
NonBlankRows(rows) ==
    IF rows = <<>> THEN <<>>
    ELSE (IF Len(Trim(Head(rows))) > 0 THEN <<Head(rows)>> ELSE <<>>)
         \o NonBlankRows(Tail(rows))

\* a variant whose filter keeps the blank rows: row.trim().length === 0
RECURSIVE BlankRows(_)
BlankRows(rows) ==
    IF rows = <<>> THEN <<>>
    ELSE (IF Len(Trim(Head(rows))) = 0 THEN <<Head(rows)>> ELSE <<>>)
         \o BlankRows(Tail(rows))

TableRowsBlank(table) == BlankRows(SplitNL(table))

TableRows(table) == NonBlankRows(SplitNL(table))

\* row.match(/\|([^|]*)/g): every "|" with the run of non-"|" after it
RECURSIVE CellMatches(_, _)
CellMatches(row, i) ==
    LET bars == {k \in i..Len(row) : row[k] = "|"}
        b == Min(bars)
        e == Min({k \in (b + 1)..Len(row) : row[k] = "|"} \cup {Len(row) + 1})
    IN IF bars = {} THEN <<>>
       ELSE <<Sub(row, b, e)>> \o CellMatches(row, e)

\* lines 24-28 and 41-45: the forEach over the matches of one row
RECURSIVE RowCells(_, _, _, _)
RowCells(cols, index, open, close) ==
    IF index > Len(cols) THEN <<>>
    ELSE (IF index = 1 /\ Trim(cols[index]) = <<"|">> THEN <<>>
          ELSE open \o Trim(Tail(cols[index])) \o close)
         \o RowCells(cols, index + 1, open, close)

\* lines 21-30 (header) and 38-47 (a data row)
RowHtml(row, open, close) ==
    LET cols == CellMatches(row, 1)
    IN IF cols = <<>> THEN <<>>
       ELSE TrOpen \o RowCells(cols, 1, open, close) \o TrClose

\* lines 37-48: for (let i = 2; i < rows.length; i++)
RECURSIVE BodyHtml(_, _)
BodyHtml(rows, i) ==
    IF i > Len(rows) THEN <<>>
    ELSE RowHtml(rows[i], TdOpen, TdClose) \o BodyHtml(rows, i + 1)

\* rows[0].match(...) on an empty rows array is a TypeError
TableCallbackThrows(table) == TableRows(table) = <<>>

\* lines 13-52: the replace callback
TableCallback(table) ==
    LET rows == TableRows(table)
    IN TableOpen \o RowHtml(rows[1], ThOpen, ThClose) \o TheadClose
       \o BodyHtml(rows, 3) \o TableClose

\* String.prototype.replace with a /g regex: the scan takes the leftmost position
\* at or after i where the regex matches, replaces the match and resumes at its end
\* TableReplaceAt: the leftmost match starts at k (0: there is none)
RECURSIVE TableReplaceFrom(_, _)
TableReplaceAt(s, i, k) ==
    IF k = 0 THEN From(s, i)
    ELSE LET e == TableMatchEnd(s, k)
         IN Sub(s, i, k) \o TableCallback(Sub(s, k, e)) \o TableReplaceFrom(s, e)

TableReplaceFrom(s, i) ==
    TableReplaceAt(s, i, First({k \in i..Len(s) : TableMatchEnd(s, k) # 0}))

\* does the callback throw for one of the matches the scan from i on makes
RECURSIVE TableThrowsFrom(_, _)
TableThrowsAt(s, k) ==
    IF k = 0 THEN FALSE
    ELSE LET e == TableMatchEnd(s, k)
         IN TableCallbackThrows(Sub(s, k, e)) \/ TableThrowsFrom(s, e)

TableThrowsFrom(s, i) ==
    TableThrowsAt(s, First({k \in i..Len(s) : TableMatchEnd(s, k) # 0}))

TableReplace(s) == TableReplaceFrom(s, 1)
TableThrows(s) == TableThrowsFrom(s, 1)

(***************************************************************************)
(* Passes 2 and 3, code (lines 55 and 58).                                 *)
(***************************************************************************)
Fence == <<BT, BT, BT>>

\* line 55: three backquotes, ([\s\S]*?) lazy, three backquotes.  The position of
\* the closing fence, or 0.
FencedClose(s, i) ==
    IF ~At(s, i, Fence) THEN 0
    ELSE LET js == {j \in (i + 3)..Len(s) : At(s, j, Fence)}
         IN IF js = {} THEN 0 ELSE Min(js)

RECURSIVE FencedReplaceFrom(_, _)
FencedReplaceFrom(s, i) ==
    LET hits == {k \in i..Len(s) : FencedClose(s, k) # 0}
        k == Min(hits)
        j == FencedClose(s, k)
    IN IF hits = {} THEN From(s, i)
       ELSE Sub(s, i, k) \o PreOpen \o Sub(s, k + 3, j) \o PreClose
            \o FencedReplaceFrom(s, j + 3)

\* line 58: a backquote, one or more characters that are no backquote, a backquote.
\* The position of the closing backquote, or 0.
InlineClose(s, i) ==
    IF ~(i <= Len(s) /\ s[i] = BT) THEN 0
    ELSE LET js == {j \in (i + 2)..Len(s) :
                      s[j] = BT /\ \A k \in (i + 1)..(j - 1) : s[k] # BT}
         IN IF js = {} THEN 0 ELSE Max(js)

RECURSIVE InlineReplaceFrom(_, _)
InlineReplaceFrom(s, i) ==
    LET hits == {k \in i..Len(s) : InlineClose(s, k) # 0}
        k == Min(hits)
        j == InlineClose(s, k)
    IN IF hits = {} THEN From(s, i)
       ELSE Sub(s, i, k) \o CodeOpen \o Sub(s, k + 1, j) \o CodeClose
            \o InlineReplaceFrom(s, j + 1)

InlineReplace(s) == InlineReplaceFrom(s, 1)

\* a variant that runs the inline pass of line 58 before the fenced pass of line 55
FencedAfterInline(s) == FencedReplaceFrom(InlineReplace(s), 1)

FencedReplace(s) == FencedReplaceFrom(s, 1)

(***************************************************************************)
(* Passes 4 and 5, emphasis (lines 61 and 64).                             *)
(***************************************************************************)
Stars == <<"*", "*">>

\* line 61:  /\*\*(.*?)\*\*/g   (. matches no "\n").  The position of the closing
\* pair, or 0.
BoldClose(s, i) ==
    IF ~At(s, i, Stars) THEN 0
    ELSE LET js == {j \in (i + 2)..(LineEnd(s, i + 2) - 1) : At(s, j, Stars)}
         IN IF js = {} THEN 0 ELSE Min(js)

RECURSIVE BoldReplaceFrom(_, _)
BoldReplaceFrom(s, i) ==
    LET hits == {k \in i..Len(s) : BoldClose(s, k) # 0}
        k == Min(hits)
        j == BoldClose(s, k)
    IN IF hits = {} THEN From(s, i)
       ELSE Sub(s, i, k) \o StrongOpen \o Sub(s, k + 2, j) \o StrongClose
            \o BoldReplaceFrom(s, j + 2)

\* line 64, the lookbehind body  <[^>]*  ending at i: a "<" before i with no ">"
\* between it and i
InsideOpenTag(s, i) ==
    \E j \in 1..(i - 1) : s[j] = "<" /\ \A k \in (j + 1)..(i - 1) : s[k] # ">"

\* a variant whose lookahead is  .*>  : any ">" later in the buffer
BeforeAnyGt(s, e) == \E k \in e..Len(s) : s[k] = ">"

\* line 64, the lookahead body  [^<]*>  starting at e: a ">" at or after e with no
\* "<" between e and it
BeforeTagEnd(s, e) ==
    \E k \in e..Len(s) : s[k] = ">" /\ \A m \in e..(k - 1) : s[m] # "<"

\* line 64:  /(?<!<[^>]*)\*(.*?)\*(?![^<]*>)/g.  The position of the closing "*", or 0.
ItalicClose(s, i) ==
    IF ~(i <= Len(s) /\ s[i] = "*" /\ ~InsideOpenTag(s, i)) THEN 0
    ELSE LET js == {j \in (i + 1)..(LineEnd(s, i + 1) - 1) :
                      s[j] = "*" /\ ~BeforeTagEnd(s, j + 1)}
         IN IF js = {} THEN 0 ELSE Min(js)

RECURSIVE ItalicReplaceFrom(_, _)
ItalicReplaceFrom(s, i) ==
    LET hits == {k \in i..Len(s) : ItalicClose(s, k) # 0}
        k == Min(hits)
        j == ItalicClose(s, k)
    IN IF hits = {} THEN From(s, i)
       ELSE Sub(s, i, k) \o EmOpen \o Sub(s, k + 1, j) \o EmClose
            \o ItalicReplaceFrom(s, j + 1)

ItalicReplace(s) == ItalicReplaceFrom(s, 1)

\* a variant that runs the italic pass of line 64 before the bold pass of line 61
BoldAfterItalic(s) == BoldReplaceFrom(ItalicReplace(s), 1)

BoldReplace(s) == BoldReplaceFrom(s, 1)

(***************************************************************************)
(* Passes 6 and 7, lists (lines 68-83 and 86-101).  The two passes differ  *)
(* in the marker only: [-*] for <ul>, \d+\. for <ol>.                      *)
(***************************************************************************)
\* [-*] (unordered) or \d+\. (ordered) tried at m: its end, or 0
MarkerEnd(s, m, ordered) ==
    IF m > Len(s) THEN 0
    ELSE IF ~ordered THEN (IF s[m] \in BulletChars THEN m + 1 ELSE 0)
    ELSE LET d == Min({k \in m..Len(s) : s[k] \notin Digits} \cup {Len(s) + 1})
         IN IF d > m /\ d <= Len(s) /\ s[d] = "." THEN d + 1 ELSE 0

\* \s+.+ after a marker that ends at b (0: no marker): the position where .+
\* starts, or 0.  The greedy \s+ gives characters back until one that is not
\* "\n" is left for .+
TextAfterMarker(s, b) ==
    IF b = 0 THEN 0
    ELSE Last({u \in (b + 1)..WsEnd(s, b) : u <= Len(s) /\ s[u] # NL})

\* MARKER\s+.+ tried at m (0: nowhere): the position where .+ starts, or 0
ItemTextAt(s, m, ordered) ==
    IF m = 0 THEN 0 ELSE TextAfterMarker(s, MarkerEnd(s, m, ordered))

\* \s*MARKER\s+.+ tried at p: the position where .+ starts, or 0.  The greedy \s*
\* gives characters back until the marker and the rest fit.
ItemTextStart(s, p, ordered) ==
    ItemTextAt(s, Last({m \in p..WsEnd(s, p) : ItemTextAt(s, m, ordered) # 0}), ordered)

\* .+\n? from u (0: no match): the end of the line, past its "\n" if it has one
ItemLineEnd(s, u) ==
    IF u = 0 THEN 0 ELSE Min({LineEnd(s, u) + 1, Len(s) + 1})

\* one iteration of (?:^\s*MARKER\s+.+\n?) tried at p: its end, or 0
ListLineEnd(s, p, ordered) ==
    IF ~LineStart(s, p) THEN 0 ELSE ItemLineEnd(s, ItemTextStart(s, p, ordered))

\* (?:...)+ greedy: e is the end of the iterations matched so far (0: none yet)
\* and more the end of one more iteration, or 0
RECURSIVE ListMoreEnd(_, _, _, _)
ListMoreEnd(s, e, more, ordered) ==
    IF more = 0 THEN e
    ELSE ListMoreEnd(s, more, ListLineEnd(s, more, ordered), ordered)

\* listRegex (line 68) or orderedListRegex (line 86) tried at i: its end, or 0
ListBlockEnd(s, i, ordered) == ListMoreEnd(s, 0, ListLineEnd(s, i, ordered), ordered)

\* lines 72 and 89: listBlock.match(/^\s*MARKER\s+(.+)$/gm), the matches at or
\* after p.  ListItemsAt: the match at k (0: none) and those after it.
RECURSIVE ListItems(_, _, _)
ListItemsAt(block, k, ordered) ==
    IF k = 0 THEN <<>>
    ELSE LET e == LineEnd(block, ItemTextStart(block, k, ordered))
         IN <<Sub(block, k, e)>> \o ListItems(block, e, ordered)

ListItems(block, p, ordered) ==
    ListItemsAt(block,
                First({k \in p..Len(block) :
                         LineStart(block, k) /\ ItemTextStart(block, k, ordered) # 0}),
                ordered)

\* lines 76 and 93: item.replace(/^\s*MARKER\s+/, '').trim()
ItemContent(item, ordered) ==
    LET b == MarkerEnd(item, WsEnd(item, 1), ordered)
    IN IF b = 0 \/ WsEnd(item, b) = b THEN Trim(item)
       ELSE Trim(From(item, WsEnd(item, b)))

RECURSIVE ItemsHtml(_, _)
ItemsHtml(items, ordered) ==
    IF items = <<>> THEN <<>>
    ELSE LiOpen \o ItemContent(Head(items), ordered) \o LiClose
         \o ItemsHtml(Tail(items), ordered)

\* lines 69-83 and 87-101: the replace callbacks
ListCallback(block, ordered) ==
    (IF ordered THEN OlOpen ELSE UlOpen)
    \o ItemsHtml(ListItems(block, 1, ordered), ordered)
    \o (IF ordered THEN OlClose ELSE UlClose)

\* the replace of lines 69 and 87 from position i on.  ListReplaceAt: the leftmost
\* match starts at k (0: there is none)
RECURSIVE ListReplaceFrom(_, _, _)
ListReplaceAt(s, i, k, ordered) ==
    IF k = 0 THEN From(s, i)
    ELSE LET e == ListBlockEnd(s, k, ordered)
         IN Sub(s, i, k) \o ListCallback(Sub(s, k, e), ordered)
            \o ListReplaceFrom(s, e, ordered)

ListReplaceFrom(s, i, ordered) ==
    ListReplaceAt(s, i, First({k \in i..Len(s) : ListBlockEnd(s, k, ordered) # 0}),
                  ordered)

UlReplace(s) == ListReplaceFrom(s, 1, FALSE)
OlReplace(s) == ListReplaceFrom(s, 1, TRUE)

(***************************************************************************)
(* Passes 8, 9 and 10: paragraph breaks, line breaks, wrapping.            *)
(***************************************************************************)
\* line 104:  /\n\s*\n/g  tried at i: the position of the closing "\n", or 0
ParaClose(s, i) ==
    IF ~(i <= Len(s) /\ s[i] = NL) THEN 0
    ELSE LET js == {j \in (i + 1)..(WsEnd(s, i + 1) - 1) : s[j] = NL}
         IN IF js = {} THEN 0 ELSE Max(js)

RECURSIVE ParaReplaceFrom(_, _)
ParaReplaceFrom(s, i) ==
    LET hits == {k \in i..Len(s) : ParaClose(s, k) # 0}
        k == Min(hits)
    IN IF hits = {} THEN From(s, i)
       ELSE Sub(s, i, k) \o ParaBreak \o ParaReplaceFrom(s, ParaClose(s, k) + 1)

ParaReplace(s) == ParaReplaceFrom(s, 1)

\* line 107: replace(/\n/g, '<br>')
RECURSIVE BrReplaceFrom(_, _)
BrReplaceFrom(s, i) ==
    LET k == LineEnd(s, i)
    IN IF k > Len(s) THEN From(s, i)
       ELSE Sub(s, i, k) \o Br \o BrReplaceFrom(s, k + 1)

BrReplace(s) == BrReplaceFrom(s, 1)

\* line 110: formattedMsg.startsWith('<')
StartsWithLt(s) == Len(s) >= 1 /\ s[1] = "<"

\* a variant that forgets the closing tag
WrapNoClose(s) == IF StartsWithLt(s) THEN s ELSE POpen \o s

\* lines 110-112
Wrap(s) == IF StartsWithLt(s) THEN s ELSE POpen \o s \o PClose

\* the ten passes in source order, on a non-empty string that raises nothing
Passes(s) ==
    Wrap(BrReplace(ParaReplace(OlReplace(UlReplace(ItalicReplace(BoldReplace(
        InlineReplace(FencedReplace(TableReplace(s))))))))))

(***************************************************************************)
(* The argument.  message is null, undefined or a string.                  *)
(***************************************************************************)
Null == [kind |-> "null", text |-> <<>>]
Undefined == [kind |-> "undefined", text |-> <<>>]
Str(t) == [kind |-> "string", text |-> t]

\* a variant that tests message === null only
NullOnly(m) == m.kind = "null"

\* line 3: !message
Falsy(m) == m.kind \in {"null", "undefined"} \/ m.text = <<>>

(***************************************************************************)
(* The state machine: a call of formatMessage, one action per statement    *)
(* group.  pc is the statement about to run, ran counts the rewrite passes *)
(* the call has run, result is the value returned.  prev lists the calls   *)
(* made before this one (Again hands a call's return value to a new call), *)
(* and shape records what the caller built the first argument from.        *)
(***************************************************************************)
\* lines 2-9
Enter ==
    /\ pc = "line3"
    /\ IF Falsy(message)
       THEN /\ pc' = "returned"
            /\ result' = <<>>
            /\ UNCHANGED formattedMsg
       ELSE /\ pc' = "table"
            /\ formattedMsg' = message.text
            /\ UNCHANGED result
    /\ UNCHANGED <<message, ran, prev, shape>>

\* lines 12-52; an exception raised in the callback leaves the function
TablePass ==
    /\ pc = "table"
    /\ IF TableThrows(formattedMsg)
       THEN /\ pc' = "threw"
            /\ UNCHANGED <<formattedMsg, ran>>
       ELSE /\ pc' = "fenced"
            /\ formattedMsg' = TableReplace(formattedMsg)
            /\ ran' = ran + 1
    /\ UNCHANGED <<message, result, prev, shape>>

\* line 55
FencedPass ==
    /\ pc = "fenced"
    /\ formattedMsg' = FencedReplace(formattedMsg)
    /\ pc' = "inline"
    /\ ran' = ran + 1
    /\ UNCHANGED <<message, result, prev, shape>>

\* line 58
InlinePass ==
    /\ pc = "inline"
    /\ formattedMsg' = InlineReplace(formattedMsg)
    /\ pc' = "bold"
    /\ ran' = ran + 1
    /\ UNCHANGED <<message, result, prev, shape>>

\* line 61
BoldPass ==
    /\ pc = "bold"
    /\ formattedMsg' = BoldReplace(formattedMsg)
    /\ pc' = "italic"
    /\ ran' = ran + 1
    /\ UNCHANGED <<message, result, prev, shape>>

\* line 64
ItalicPass ==
    /\ pc = "italic"
    /\ formattedMsg' = ItalicReplace(formattedMsg)
    /\ pc' = "ul"
    /\ ran' = ran + 1
    /\ UNCHANGED <<message, result, prev, shape>>

\* lines 68-83
UlPass ==
    /\ pc = "ul"
    /\ formattedMsg' = UlReplace(formattedMsg)
    /\ pc' = "ol"
    /\ ran' = ran + 1
    /\ UNCHANGED <<message, result, prev, shape>>

\* lines 86-101
OlPass ==
    /\ pc = "ol"
    /\ formattedMsg' = OlReplace(formattedMsg)
    /\ pc' = "para"
    /\ ran' = ran + 1
    /\ UNCHANGED <<message, result, prev, shape>>

\* line 104
ParaPass ==
    /\ pc = "para"
    /\ formattedMsg' = ParaReplace(formattedMsg)
    /\ pc' = "br"
    /\ ran' = ran + 1
    /\ UNCHANGED <<message, result, prev, shape>>

\* line 107
BrPass ==
    /\ pc = "br"
    /\ formattedMsg' = BrReplace(formattedMsg)
    /\ pc' = "wrap"
    /\ ran' = ran + 1
    /\ UNCHANGED <<message, result, prev, shape>>

\* lines 110-114
WrapPass ==
    /\ pc = "wrap"
    /\ formattedMsg' = Wrap(formattedMsg)
    /\ result' = formattedMsg'
    /\ pc' = "returned"
    /\ ran' = ran + 1
    /\ UNCHANGED <<message, prev, shape>>

\* formatMessage(formatMessage(x)): the caller hands the value returned to a second call
Again ==
    /\ pc = "returned"
    /\ prev = <<>>
    /\ prev' = <<[message |-> message, result |-> result]>>
    /\ message' = Str(result)
    /\ formattedMsg' = <<>>
    /\ result' = <<>>
    /\ pc' = "line3"
    /\ ran' = 0
    /\ UNCHANGED shape

Next ==
    \/ Enter
    \/ TablePass
    \/ FencedPass
    \/ InlinePass
    \/ BoldPass
    \/ ItalicPass
    \/ UlPass
    \/ OlPass
    \/ ParaPass
    \/ BrPass
    \/ WrapPass

NextTwice == Next \/ Again

\* the state as a first call starts
Called(m, sh) ==
    /\ message = m
    /\ shape = sh
    /\ formattedMsg = <<>>
    /\ result = <<>>
    /\ pc = "line3"
    /\ ran = 0
    /\ prev = <<>>

(***************************************************************************)
(* Arguments the calls are made with.                                      *)
(***************************************************************************)
MaxLen == 4
Alphabet == {"a", " ", NL, "*", BT, "|", "-", "1", ".", "<", ">"}
ShortStrings == UNION {[1..k -> Alphabet] : k \in 0..MaxLen}

\* lines of markdown, well formed and not, joined by "\n"
MaxLines == 3
LineShapes ==
    { <<"a">>, <<>>, <<" ">>,
      <<"|", "a", "|", "1", "|">>, <<"|", "-", "|", "-", "|">>, <<"|", "-", "|">>,
      <<"|", "a">>,
      <<"-", " ", "a">>, <<"1", ".", " ", "a">>,
      <<"*", "*", "a", "*", "*">>, <<BT, "a", BT>> }

RECURSIVE JoinLines(_)
JoinLines(lines) ==
    IF Len(lines) = 0 THEN <<>>
    ELSE IF Len(lines) = 1 THEN lines[1]
    ELSE lines[1] \o <<NL>> \o JoinLines(Tail(lines))

Fragments == {JoinLines(ls) : ls \in UNION {[1..k -> LineShapes] : k \in 1..MaxLines}}

Text == [kind |-> "text"]

Init ==
    \E m \in {Null, Undefined} \cup {Str(t) : t \in ShortStrings \cup Fragments} :
        Called(m, Text)

Spec == Init /\ [][Next]_vars

(***************************************************************************)
(* Arguments built from a structure: tables, lists, code, emphasis.        *)
(***************************************************************************)
Spaces(k) == [i \in 1..k |-> " "]

\* | c1 | ... | cn |  with pad spaces on each side of a cell
RECURSIVE CellsText(_, _)
CellsText(cells, pad) ==
    IF cells = <<>> THEN <<>>
    ELSE Spaces(pad) \o Head(cells) \o Spaces(pad) \o <<"|">> \o CellsText(Tail(cells), pad)

RowText(cells, pad) == <<"|">> \o CellsText(cells, pad)

\* |---|...|---|  with n groups
RECURSIVE DashGroups(_)
DashGroups(n) == IF n = 0 THEN <<>> ELSE <<"-", "-", "-", "|">> \o DashGroups(n - 1)

SepText(n) == <<"|">> \o DashGroups(n)

MaxCols == 3
MaxRows == 2
MaxPad == 1
HeaderTexts == {<<"A">>, <<"B">>}
DataTexts == {<<"1">>, <<"2">>}

\* a table of n columns and m data rows
TableShape(h, rs, p) == [kind |-> "table", header |-> h, rows |-> rs, pad |-> p]

TableText(sh) ==
    JoinLines(<<RowText(sh.header, sh.pad), SepText(Len(sh.header))>>
              \o [r \in 1..Len(sh.rows) |-> RowText(sh.rows[r], sh.pad)])

InitTable ==
    \E n \in 2..MaxCols, m \in 0..MaxRows, p \in 0..MaxPad :
        \E h \in [1..n -> HeaderTexts], rs \in [1..m -> [1..n -> DataTexts]] :
            Called(Str(TableText(TableShape(h, rs, p))), TableShape(h, rs, p))

SpecTable == InitTable /\ [][Next]_vars

MaxItems == 3
MaxGap == 2
ItemTexts == {<<"a">>, <<"b">>, <<"a", " ">>, <<"a", " ", "b">>, <<>>}
DigitOf == <<"1", "2", "3", "4", "5", "6", "7", "8", "9">>

ListShapes ==
    UNION {
      {[kind |-> "list", marker |-> mk, items |-> its, gap |-> g] :
          mk \in {"-", "*", "1."}, its \in [1..k -> ItemTexts], g \in 1..MaxGap} :
      k \in 1..MaxItems}

\* line j of a list: its marker, the gap, its text
ListLine(sh, j) ==
    (IF sh.marker = "1." THEN <<DigitOf[j], ".">> ELSE <<sh.marker>>)
    \o Spaces(sh.gap) \o sh.items[j]

ListText(sh) == JoinLines([j \in 1..Len(sh.items) |-> ListLine(sh, j)])

InitList == \E sh \in ListShapes : Called(Str(ListText(sh)), sh)

SpecList == InitList /\ [][Next]_vars

MaxCodeLen == 5
CodeAlphabet == {"a", " ", "*", "<", "-"}

CodeShapes ==
    {[kind |-> "code", ticks |-> t, body |-> x] :
        t \in {1, 3}, x \in UNION {[1..k -> CodeAlphabet] : k \in 1..MaxCodeLen}}

CodeText(sh) == [i \in 1..sh.ticks |-> BT] \o sh.body \o [i \in 1..sh.ticks |-> BT]

InitCode == \E sh \in CodeShapes : Called(Str(CodeText(sh)), sh)

SpecCode == InitCode /\ [][Next]_vars

MaxEmphLen == 3
EmphAlphabet == {"a", " ", "-", "1", ".", "|"}

EmphShapes ==
    {[kind |-> "emph", stars |-> n, body |-> t] :
        n \in {1, 2}, t \in UNION {[1..k -> EmphAlphabet] : k \in 0..MaxEmphLen}}

EmphText(sh) == [i \in 1..sh.stars |-> "*"] \o sh.body \o [i \in 1..sh.stars |-> "*"]

InitEmph == \E sh \in EmphShapes : Called(Str(EmphText(sh)), sh)

SpecEmph == InitEmph /\ [][Next]_vars

\* two calls in a row, the second on what the first returned
TwiceAlphabet == {"a", "*", NL, ">", BT}

InitTwice ==
    \E t \in UNION {[1..k -> TwiceAlphabet] : k \in 0..MaxLen} : Called(Str(t), Text)

SpecTwice == InitTwice /\ [][NextTwice]_vars

(***************************************************************************)
(* What the claims speak of.                                               *)
(***************************************************************************)
Chars(t) == {t[k] : k \in 1..Len(t)}

\* lit occurs somewhere in s
Contains(s, lit) == \E i \in 1..Len(s) : At(s, i, lit)

\* the first position at or after p that holds no space
FirstNonSpace(t, p) == Min({k \in p..Len(t) : t[k] # " "} \cup {Len(t) + 1})

\* a bullet followed by whitespace or by the end of the text
BulletAt(t, m) ==
    /\ m <= Len(t)
    /\ t[m] \in {"-", "*"}
    /\ (m = Len(t) \/ t[m + 1] \in Whitespace)

\* digits, a dot, then whitespace or the end of the text
NumberAt(t, m) ==
    LET d == Min({k \in m..Len(t) : t[k] \notin Digits} \cup {Len(t) + 1})
    IN /\ m <= Len(t)
       /\ d > m
       /\ d <= Len(t)
       /\ t[d] = "."
       /\ (d = Len(t) \/ t[d + 1] \in Whitespace)

\* some line starts, after spaces, with a list marker
ListMarkerAtLineStart(t) ==
    \E p \in 1..Len(t) :
        /\ p = 1 \/ t[p - 1] = NL
        /\ BulletAt(t, FirstNonSpace(t, p)) \/ NumberAt(t, FirstNonSpace(t, p))

\* two newlines with nothing but whitespace between them
HasBlankLine(t) ==
    \E i, j \in 1..Len(t) :
        /\ i < j
        /\ t[i] = NL
        /\ t[j] = NL
        /\ \A k \in (i + 1)..(j - 1) : t[k] \in Whitespace

\* non-empty text with no recognized marker and no blank line
PlainText(t) ==
    /\ t # <<>>
    /\ Chars(t) \cap {"|", BT, "*"} = {}
    /\ ~ListMarkerAtLineStart(t)
    /\ ~HasBlankLine(t)

\* t with every newline replaced by <br>
RECURSIVE WithBreaks(_)
WithBreaks(t) ==
    IF t = <<>> THEN <<>>
    ELSE (IF Head(t) = NL THEN <<"<", "b", "r", ">">> ELSE <<Head(t)>>)
         \o WithBreaks(Tail(t))

InParagraph(t) == <<"<", "p", ">">> \o t \o <<"<", "/", "p", ">">>

\* <p> and </p> pair up: as many of each, and every </p> closes an earlier open <p>
BalancedParagraphs(r) ==
    LET opens == {i \in 1..Len(r) : At(r, i, <<"<", "p", ">">>)}
        closes == {i \in 1..Len(r) : At(r, i, <<"<", "/", "p", ">">>)}
    IN /\ Cardinality(opens) = Cardinality(closes)
       /\ \A c \in closes :
            Cardinality({o \in opens : o < c}) >= Cardinality({d \in closes : d <= c})

\* the markup a list of cells, rows or items stands for
RECURSIVE Tagged(_, _, _)
Tagged(texts, open, close) ==
    IF texts = <<>> THEN <<>>
    ELSE open \o Trim(Head(texts)) \o close \o Tagged(Tail(texts), open, close)

RECURSIVE BodyRows(_)
BodyRows(rows) ==
    IF rows = <<>> THEN <<>>
    ELSE TrOpen \o Tagged(Head(rows), TdOpen, TdClose) \o TrClose \o BodyRows(Tail(rows))

TableHtml(sh) ==
    TableOpen \o TrOpen \o Tagged(sh.header, ThOpen, ThClose) \o TrClose
    \o TheadClose \o BodyRows(sh.rows) \o TableClose

ListHtml(sh) ==
    IF sh.marker = "1." THEN OlOpen \o Tagged(sh.items, LiOpen, LiClose) \o OlClose
    ELSE UlOpen \o Tagged(sh.items, LiOpen, LiClose) \o UlClose

Returned == pc = "returned"

(***************************************************************************)
(* C1.  A table block of a header row, a dash separator row and m data     *)
(* rows of n cells is returned as one table: n header cells with the       *)
(* trimmed header texts in order, m body rows of n cells with the trimmed  *)
(* cell texts in order, no row for the separator.                          *)
(***************************************************************************)
C1_TableRendered ==
    (Returned /\ shape.kind = "table") => result = TableHtml(shape)

(***************************************************************************)
(* C2.  Non-empty text with no recognized marker and no blank line is      *)
(* returned as <p>, the text with every newline replaced by <br>, </p>.    *)
(***************************************************************************)
C2_PlainTextWrapped ==
    (Returned /\ message.kind = "string" /\ PlainText(message.text))
        => result = InParagraph(WithBreaks(message.text))

\* C2 as amended: the same, for text whose first character is neither a newline
\* nor "<"
C2_PlainTextWrappedUnlessTagFirst ==
    (/\ Returned
     /\ message.kind = "string"
     /\ PlainText(message.text)
     /\ message.text[1] \notin {NL, "<"})
        => result = InParagraph(WithBreaks(message.text))

C2_Witness ==
    /\ Returned
    /\ message = Str(<<"a", " ", NL, "a">>)
    /\ PlainText(message.text)
    /\ result = <<"<", "p", ">", "a", " ", "<", "b", "r", ">", "a", "<", "/", "p", ">">>

(***************************************************************************)
(* C3.  null, undefined and the empty string return the empty string: the  *)
(* call goes from line 3 straight to its return, no rewrite pass runs and  *)
(* no paragraph wrapper is added.                                          *)
(***************************************************************************)
C3_EmptyReturnsEmpty ==
    message \in {Null, Undefined, Str(<<>>)}
        => /\ pc \in {"line3", "returned"}
           /\ ran = 0
           /\ Returned => result = <<>>

C3_Witness ==
    /\ Returned
    /\ message = Str(<<>>)
    /\ result = <<>>
    /\ ran = 0

(***************************************************************************)
(* C4.  A run of k lines with the same kind of list marker and whitespace  *)
(* after it is returned as exactly one list of k items, in order, each the *)
(* trimmed text of its line.                                               *)
(***************************************************************************)
C4_OneListOfAllLines ==
    (Returned /\ shape.kind = "list") => result = ListHtml(shape)

(***************************************************************************)
(* C5.  Non-empty text x with no backquote, newline or asterisk between    *)
(* single backquotes is returned as <code>x</code>, and between triple     *)
(* backquotes as <pre><code>x</code></pre>, never as inline code spans.    *)
(***************************************************************************)
C5_CodeRendered ==
    (Returned /\ shape.kind = "code" /\ "*" \notin Chars(shape.body))
        => result = IF shape.ticks = 1
                    THEN <<"<", "c", "o", "d", "e", ">">> \o shape.body
                         \o <<"<", "/", "c", "o", "d", "e", ">">>
                    ELSE <<"<", "p", "r", "e", ">", "<", "c", "o", "d", "e", ">">>
                         \o shape.body
                         \o <<"<", "/", "c", "o", "d", "e", ">", "<", "/", "p", "r", "e", ">">>

C5_Witness ==
    /\ Returned
    /\ shape.kind = "code"
    /\ shape.ticks = 3
    /\ shape.body = <<"a", " ", "<", "-">>
    /\ result = PreOpen \o shape.body \o PreClose

(***************************************************************************)
(* C6.  For text t with no asterisk, newline, backquote, "<" or ">",       *)
(* **t** is returned as <strong>t</strong> and *t* as <em>t</em>; what     *)
(* **t** returns holds no <em>.                                            *)
(***************************************************************************)
C6_EmphasisRendered ==
    (Returned /\ shape.kind = "emph")
        => /\ result = IF shape.stars = 2
                       THEN <<"<", "s", "t", "r", "o", "n", "g", ">">> \o shape.body
                            \o <<"<", "/", "s", "t", "r", "o", "n", "g", ">">>
                       ELSE <<"<", "e", "m", ">">> \o shape.body
                            \o <<"<", "/", "e", "m", ">">>
           /\ shape.stars = 2 => ~Contains(result, <<"<", "e", "m", ">">>)

C6_Witness ==
    /\ Returned
    /\ shape.kind = "emph"
    /\ shape.stars = 2
    /\ shape.body = <<"a", " ", "1">>
    /\ result = StrongOpen \o shape.body \o StrongClose

(***************************************************************************)
(* C7.  No call throws: whatever the string, well formed or not, no pass   *)
(* raises, and a call on a non-empty string returns after all ten passes.  *)
(***************************************************************************)
C7_NeverThrows ==
    /\ pc # "threw"
    /\ (Returned /\ message.kind = "string" /\ message.text # <<>>) => ran = 10

\* a table block with no data rows, and one with a partial row, have gone through
C7_Witness ==
    /\ Returned
    /\ message.kind = "string"
    /\ message.text = <<"|", "a", "|", "1", "|", NL, "|", "-", "|", "-", "|", NL, "|", "a">>
    /\ Contains(result, TableClose)

(***************************************************************************)
(* C8.  formatMessage is not idempotent: for the argument  a*\n*  the      *)
(* second call, made on what the first returned, returns something else.   *)
(***************************************************************************)
NotIdempotentOn == <<"a", "*", NL, "*">>

C8_SecondCallDiffers ==
    (Returned /\ prev # <<>> /\ prev[1].message = Str(NotIdempotentOn))
        => result # prev[1].result

C8_Witness ==
    /\ Returned
    /\ prev # <<>>
    /\ prev[1].message = Str(NotIdempotentOn)
    /\ prev[1].result = <<"<", "p", ">", "a", "*", "<", "b", "r", ">", "*", "<", "/", "p", ">">>
    /\ result = <<"<", "p", ">", "a", "<", "e", "m", ">", "<", "b", "r", ">",
                  "<", "/", "e", "m", ">", "<", "/", "p", ">">>

(***************************************************************************)
(* C9.  Asterisks inside code are no emphasis: when the content c of an    *)
(* inline code span or fenced block holds *t* or **t**, c is returned      *)
(* unchanged between <code> and </code>.                                   *)
(***************************************************************************)
\* c holds *t* for some non-empty t without asterisks (**t** holds one too)
HoldsEmphasisSpan(c) ==
    \E i, j \in 1..Len(c) :
        /\ i + 1 < j
        /\ c[i] = "*"
        /\ c[j] = "*"
        /\ \A k \in (i + 1)..(j - 1) : c[k] # "*"

C9_CodeKeepsAsterisks ==
    (Returned /\ shape.kind = "code" /\ HoldsEmphasisSpan(shape.body))
        => Contains(result, <<"<", "c", "o", "d", "e", ">">> \o shape.body
                            \o <<"<", "/", "c", "o", "d", "e", ">">>)

(***************************************************************************)
(* C10.  For an argument with no "<" and no ">", the <p> and </p> of what  *)
(* is returned are balanced.                                               *)
(***************************************************************************)
C10_ParagraphsBalanced ==
    (Returned /\ message.kind = "string" /\ Chars(message.text) \cap {"<", ">"} = {})
        => BalancedParagraphs(result)

=============================================================================
